---- MODULE Spec2Model ----
(***************************************************************************)
(* Model of boggle.js: the Trie (TrieNode, addWord, hasSubString) and the  *)
(* backtracking search of BoggleGame (solve, backTrack, getAdjacent,       *)
(* isValidCell).                                                           *)
(*                                                                         *)
(* A word is a sequence of one-character strings.  Board cells are indexed *)
(* from 0 as in the source, so board[i] of the source is board[i + 1].     *)
(* Trie nodes live in a heap: trie[id] is the TrieNode with identity id,   *)
(* the root is node 1 and the null parent is 0.                            *)
(***************************************************************************)
EXTENDS Integers, Sequences, FiniteSets, TLC

VARIABLES
    width,       \* BoggleGame.width
    height,      \* BoggleGame.height
    board,       \* BoggleGame.board
    dictionary,  \* BoggleGame.dictionary
    trie,        \* the heap of TrieNode objects reachable from Trie.root
    inserted,    \* history: the arguments of the addWord calls made so far
    pc,          \* "trie" | "idle" | "solving" | "done"
    cellIdx,     \* index i of board.forEach in solve()
    stack,       \* the active backTrack calls, innermost last
    path,        \* the path array shared by the active backTrack calls
    words,       \* the words array of solve()
    emitted,     \* history: the arguments of the foundWord calls made so far
    lastOp       \* history: the step taken last

vars == <<width, height, board, dictionary, trie, inserted, pc, cellIdx,
          stack, path, words, emitted, lastOp>>

(***************************************************************************)
(* Bounds of the model.                                                    *)
(***************************************************************************)
MaxCells == 3
MaxDictLetters == 4
MaxInserts == 2
MaxTrieWordLen == 2
MaxFairCells == 2
MaxFairDictLetters == 3

BoardLetters == {"a", "B"}
DictLetters == {"A", "B"}
TrieLetters == {"a", "A", "B"}
AllLetters == {"a", "A", "b", "B"}

Range(s) == {s[k] : k \in 1..Len(s)}

SeqsUpTo(S, lo, hi) == UNION {[1..n -> S] : n \in lo..hi}

NoDuplicates(s) == \A j, k \in 1..Len(s) : s[j] = s[k] => j = k

(***************************************************************************)
(* String.prototype.toLowerCase, letter by letter.                         *)
(***************************************************************************)
LowerLetter(l) ==
    CASE l = "A" -> "a"
      [] l = "B" -> "b"
      [] OTHER -> l

toLowerCase(word) == [k \in 1..Len(word) |-> LowerLetter(word[k])]

(***************************************************************************)
(* TrieNode                                                                *)
(***************************************************************************)
Null == 0
Root == 1

NoChildren == [l \in {} |-> Null]

TrieNode(parent, letter) ==
    [parent |-> parent, children |-> NoChildren, letter |-> letter,
     hasChildren |-> FALSE, isTerminal |-> FALSE]

hasChild(node, letter) == letter \in DOMAIN node.children

getChild(node, letter) == node.children[letter]

setChild(node, letter, id) ==
    [node EXCEPT !.hasChildren = TRUE,
                 !.children = (letter :> id) @@ node.children]

(***************************************************************************)
(* Trie                                                                    *)
(***************************************************************************)
NewTrie == <<TrieNode(Null, "root")>>

\* The loop of addWord (lines 100-105): the heap and the node reached.
RECURSIVE addLetters(_, _, _)
addLetters(t, current, letters) ==
    IF letters = <<>>
    THEN [t |-> t, current |-> current]
    ELSE LET letter == Head(letters)
             t2 == IF ~hasChild(t[current], letter)
                   THEN Append([t EXCEPT ![current] =
                                    setChild(t[current], letter, Len(t) + 1)],
                               TrieNode(current, letter))
                   ELSE t
         IN  addLetters(t2, getChild(t2[current], letter), Tail(letters))

markTerminal_AndParent(t, current) ==
    [id \in 1..Len(t) |->
        IF id = current \/ id = t[current].parent
        THEN [t[id] EXCEPT !.isTerminal = TRUE]
        ELSE t[id]]

\* current.isTerminal = true (line 106)
markTerminal(t, current) == [t EXCEPT ![current].isTerminal = TRUE]

addWord_NoLowerCase(t, word) ==
    LET r == addLetters(t, Root, word)
    IN  markTerminal(r.t, r.current)

addWord(t, word) ==
    LET r == addLetters(t, Root, toLowerCase(word))
    IN  markTerminal(r.t, r.current)

RECURSIVE walk(_, _, _)
walk(t, current, letters) ==
    IF letters = <<>> THEN current
    ELSE IF ~hasChild(t[current], Head(letters)) THEN Null
    ELSE walk(t, getChild(t[current], Head(letters)), Tail(letters))

hasSubString_IgnoreTerminal(t, word, isTerminal) ==
    walk(t, Root, toLowerCase(word)) # Null

hasSubString(t, word, isTerminal) ==
    LET current == walk(t, Root, toLowerCase(word))
    IN  IF current = Null THEN FALSE
        ELSE IF isTerminal THEN t[current].isTerminal
        ELSE TRUE

RECURSIVE addWords(_, _)
addWords(t, ws) ==
    IF ws = <<>> THEN t ELSE addWords(addWord(t, Head(ws)), Tail(ws))

Trie(ws) == addWords(NewTrie, ws)

(***************************************************************************)
(* BoggleGame                                                              *)
(***************************************************************************)
MinWordLen == 3

\* this.board[i], i counted from 0
cell(b, i) == b[i + 1]

isValidCell(b, i) == i >= 0 /\ i < Len(b)

getAdjacent(w, b, i) ==
    SelectSeq(<<i - (w + 1), i - w, i - (w - 1), i - 1,
                i + 1, i + (w - 1), i + w, i + (w + 1)>>,
              LAMBDA j : isValidCell(b, j))

visited_Never(p, nextCell) == FALSE

\* path.indexOf(nextCell) !== -1
visited(p, nextCell) == nextCell \in Range(p)

popPath_Forgotten(p) == p

\* path.pop()
popPath(p) == SubSeq(p, 1, Len(p) - 1)

foundWord_NoCheck(ws, word) == Append(ws, word)

\* the foundWord callback of solve()
foundWord(ws, word) == IF word \in Range(ws) THEN ws ELSE Append(ws, word)

isWord_AnyLength(t, currentWord) == hasSubString(t, currentWord, TRUE)

\* the condition of backTrack's first statement
isWord(t, currentWord) ==
    Len(currentWord) >= MinWordLen /\ hasSubString(t, currentWord, TRUE)

explores_WholeWordsOnly(f, k) ==
    LET nextCell == f.adjacent[k]
        nextWord == Append(f.currentWord, cell(board, nextCell))
    IN  /\ ~visited(path, nextCell)
        /\ hasSubString(trie, nextWord, TRUE)

\* The tests of the loop body of backTrack for adjacent[k]: neither continue
\* is taken.
explores(f, k) ==
    LET nextCell == f.adjacent[k]
        nextWord == Append(f.currentWord, cell(board, nextCell))
    IN  /\ ~visited(path, nextCell)
        /\ hasSubString(trie, nextWord, FALSE)

\* The first position of the loop over adjacent, from f.next on, whose body
\* reaches the recursive call; 0 when the loop runs out.
nextExplored(f) ==
    LET ks == {k \in f.next..Len(f.adjacent) : explores(f, k)}
    IN  IF ks = {} THEN 0 ELSE CHOOSE k \in ks : \A j \in ks : k <= j

\* A call backTrack(currentWord, currentCell, path, depth, foundWord) at its
\* first statement; entryPath records the contents of path at this moment.
Frame(currentWord, currentCell, p, depth) ==
    [currentWord |-> currentWord, currentCell |-> currentCell,
     depth |-> depth, at |-> "check", adjacent |-> <<>>, next |-> 1,
     entryPath |-> p]

Top == stack[Len(stack)]

\* The board sizes of at most n cells.
Dims(n) == {d \in (1..n) \X (1..n) : d[1] * d[2] <= n}

\* The dictionaries of non-empty words with at most n letters in all.
RECURSIVE Dictionaries(_)
Dictionaries(n) ==
    {<<>>} \cup
    UNION {{<<w>> \o d : d \in Dictionaries(n - Len(w))} :
              w \in SeqsUpTo(DictLetters, 1, n)}

\* The state after new BoggleGame(width, height, board, dictionary), for a
\* board of at most maxCells cells and a dictionary of at most maxLetters
\* letters.
Constructed(maxCells, maxLetters) ==
    /\ \E d \in Dims(maxCells) :
          /\ width = d[1]
          /\ height = d[2]
          /\ board \in [1..(d[1] * d[2]) -> BoardLetters]
    /\ dictionary \in Dictionaries(maxLetters)
    /\ trie = Trie(dictionary)
    /\ inserted = dictionary
    /\ pc = "idle"
    /\ cellIdx = 0
    /\ stack = <<>>
    /\ path = <<>>
    /\ words = <<>>
    /\ emitted = <<>>
    /\ lastOp = "new"

Init == Constructed(MaxCells, MaxDictLetters)

game == <<width, height, board, dictionary, trie, inserted>>

\* solve() is called: const words = []; board.forEach begins.
Solve ==
    /\ pc = "idle"
    /\ pc' = "solving"
    /\ cellIdx' = 0
    /\ words' = <<>>
    /\ lastOp' = "solve"
    /\ UNCHANGED <<game, stack, path, emitted>>

\* board.forEach((letter, i) => this.backTrack(letter, i, [], 0, foundWord))
StartCell ==
    /\ pc = "solving"
    /\ stack = <<>>
    /\ cellIdx < Len(board)
    /\ path' = <<>>
    /\ stack' = <<Frame(<<cell(board, cellIdx)>>, cellIdx, <<>>, 0)>>
    /\ lastOp' = "call"
    /\ UNCHANGED <<game, pc, cellIdx, words, emitted>>

\* backTrack up to its loop: the dictionary test, depth += 1, getAdjacent.
Check ==
    /\ pc = "solving"
    /\ stack # <<>>
    /\ Top.at = "check"
    /\ IF isWord(trie, Top.currentWord)
       THEN /\ words' = foundWord(words, Top.currentWord)
            /\ emitted' = Append(emitted, Top.currentWord)
       ELSE UNCHANGED <<words, emitted>>
    /\ stack' = [stack EXCEPT ![Len(stack)] =
                    [@ EXCEPT !.at = "loop",
                              !.depth = @ + 1,
                              !.adjacent = getAdjacent(width, board, Top.currentCell)]]
    /\ lastOp' = "check"
    /\ UNCHANGED <<game, pc, cellIdx, path>>

\* The loop of backTrack runs to its next recursive call: path.push(nextCell)
\* and the call.
Recurse ==
    /\ pc = "solving"
    /\ stack # <<>>
    /\ Top.at = "loop"
    /\ nextExplored(Top) # 0
    /\ LET k == nextExplored(Top)
           nextCell == Top.adjacent[k]
           nextWord == Append(Top.currentWord, cell(board, nextCell))
       IN  /\ path' = Append(path, nextCell)
           /\ stack' = Append([stack EXCEPT ![Len(stack)].next = k + 1],
                              Frame(nextWord, nextCell, Append(path, nextCell),
                                    Top.depth))
    /\ lastOp' = "call"
    /\ UNCHANGED <<game, pc, cellIdx, words, emitted>>

\* The loop of backTrack runs out and the call returns; a calling backTrack
\* continues with path.pop(), forEach continues with the next cell.
Return ==
    /\ pc = "solving"
    /\ stack # <<>>
    /\ Top.at = "loop"
    /\ nextExplored(Top) = 0
    /\ stack' = SubSeq(stack, 1, Len(stack) - 1)
    /\ IF Len(stack) > 1
       THEN /\ path' = popPath(path)
            /\ UNCHANGED cellIdx
       ELSE /\ cellIdx' = cellIdx + 1
            /\ UNCHANGED path
    /\ lastOp' = "return"
    /\ UNCHANGED <<game, pc, words, emitted>>

\* forEach has run over every cell: return words.
Finish ==
    /\ pc = "solving"
    /\ stack = <<>>
    /\ cellIdx = Len(board)
    /\ pc' = "done"
    /\ lastOp' = "finish"
    /\ UNCHANGED <<game, cellIdx, stack, path, words, emitted>>

Next == Solve \/ StartCell \/ Check \/ Recurse \/ Return \/ Finish

Spec == Init /\ [][Next]_vars

InitFair == Constructed(MaxFairCells, MaxFairDictLetters)

\* solve() is synchronous code: a step that can be taken is taken.
FairSpec == InitFair /\ [][Next]_vars /\ WF_vars(Next)

(***************************************************************************)
(* The Trie on its own: new Trie([]) followed by addWord calls.            *)
(***************************************************************************)
TrieWords == SeqsUpTo(TrieLetters, 0, MaxTrieWordLen)

InitTrie ==
    /\ width = 0
    /\ height = 0
    /\ board = <<>>
    /\ dictionary = <<>>
    /\ trie = Trie(<<>>)
    /\ inserted = <<>>
    /\ pc = "trie"
    /\ cellIdx = 0
    /\ stack = <<>>
    /\ path = <<>>
    /\ words = <<>>
    /\ emitted = <<>>
    /\ lastOp = "new"

AddWord ==
    /\ pc = "trie"
    /\ Len(inserted) < MaxInserts
    /\ \E word \in TrieWords :
          /\ trie' = addWord(trie, word)
          /\ inserted' = Append(inserted, word)
    /\ lastOp' = "addWord"
    /\ UNCHANGED <<width, height, board, dictionary, pc, cellIdx, stack,
                   path, words, emitted>>

NextTrie == AddWord

SpecTrie == InitTrie /\ [][NextTrie]_vars

(***************************************************************************)
(* Vocabulary of the properties.                                           *)
(***************************************************************************)
Cells == 0..(Len(board) - 1)

CellSeqs(n) == [1..n -> Cells]

Spelled(p) == [k \in 1..Len(p) |-> cell(board, p[k])]

Abs(x) == IF x < 0 THEN -x ELSE x

\* Two different cells of the grid that touch by a side or a corner.
GridAdjacent(i, j) ==
    /\ i # j
    /\ Abs((i \div width) - (j \div width)) <= 1
    /\ Abs((i % width) - (j % width)) <= 1

AdjacentPath(p) == \A k \in 1..(Len(p) - 1) : GridAdjacent(p[k], p[k + 1])

SimplePath(p) == NoDuplicates(p) /\ AdjacentPath(p)

SameWord(v, w) == toLowerCase(v) = toLowerCase(w)

Lowered(ws) == {toLowerCase(w) : w \in Range(ws)}

RECURSIVE FirstOccurrences(_)
FirstOccurrences(s) ==
    IF s = <<>> THEN <<>>
    ELSE LET front == SubSeq(s, 1, Len(s) - 1)
             last == s[Len(s)]
         IN  IF last \in Range(front)
             THEN FirstOccurrences(front)
             ELSE Append(FirstOccurrences(front), last)

RECURSIVE PathOf(_, _)
PathOf(t, id) ==
    IF t[id].parent = Null THEN <<>>
    ELSE Append(PathOf(t, t[id].parent), t[id].letter)

(***************************************************************************)
(* C1: every word collected by solve() is spelled by some sequence of      *)
(* board cells, one cell per letter, in which no cell occurs twice.        *)
(***************************************************************************)
C1_NoCellTwice ==
    \A w \in Range(words) :
        \E p \in CellSeqs(Len(w)) : NoDuplicates(p) /\ Spelled(p) = w

(***************************************************************************)
(* C2: every word collected by solve() is spelled by some sequence of      *)
(* board cells in which each cell and the next are different cells whose   *)
(* rows differ by at most 1 and whose columns differ by at most 1.         *)
(***************************************************************************)
C2_AdjacentCells ==
    \A w \in Range(words) :
        \E p \in CellSeqs(Len(w)) : AdjacentPath(p) /\ Spelled(p) = w

(***************************************************************************)
(* C3: when solve() has returned, for every dictionary word of at least 3  *)
(* letters and every path of pairwise distinct, grid-adjacent cells that   *)
(* spells it (letters compared as the trie compares them), the letters of  *)
(* that path are in the result.                                            *)
(***************************************************************************)
C3_Complete ==
    pc = "done" =>
        \A d \in Range(dictionary) :
            Len(d) >= MinWordLen =>
                \A p \in CellSeqs(Len(d)) :
                    SimplePath(p) /\ SameWord(Spelled(p), d)
                        => Spelled(p) \in Range(words)

C3_Witness ==
    /\ pc = "done"
    /\ \E d \in Range(dictionary) :
          /\ Len(d) >= MinWordLen
          /\ \E p \in CellSeqs(Len(d)) :
                SimplePath(p) /\ SameWord(Spelled(p), d)

(***************************************************************************)
(* C4: every word collected by solve() equals, letter case ignored, a word *)
(* of the dictionary the game was constructed with.                        *)
(***************************************************************************)
C4_InDictionary ==
    \A w \in Range(words) : \E d \in Range(dictionary) : SameWord(w, d)

C4_Witness ==
    /\ pc = "done"
    /\ \E w \in Range(words) : w \notin Range(dictionary)
    /\ \E d \in Range(dictionary) : Len(d) > MinWordLen

(***************************************************************************)
(* C5: no word collected by solve() has fewer than 3 letters, also when    *)
(* the dictionary holds shorter words that the board spells.               *)
(***************************************************************************)
C5_MinLength == \A w \in Range(words) : Len(w) >= MinWordLen

C5_Witness ==
    /\ pc = "done"
    /\ words # <<>>
    /\ \E d \in Range(dictionary) :
          /\ Len(d) < MinWordLen
          /\ \E p \in CellSeqs(Len(d)) :
                SimplePath(p) /\ SameWord(Spelled(p), d)

(***************************************************************************)
(* C6: at every point of the search the collected list holds each emitted  *)
(* word once, in the order of first emission: it has no two equal entries  *)
(* and emitting a word again has left it unchanged.                        *)
(***************************************************************************)
C6_EachWordOnce ==
    /\ NoDuplicates(words)
    /\ words = FirstOccurrences(emitted)

C6_Witness ==
    /\ Len(emitted) > Len(words)
    /\ words # <<>>

(***************************************************************************)
(* C7: after any sequence of addWord calls, every inserted word is found   *)
(* as a whole word and each of its prefixes, the word itself included, is  *)
(* found as a prefix, whatever the letter case of the inserted word or of  *)
(* the string asked for.                                                   *)
(***************************************************************************)
C7_RoundTrip ==
    \A w \in Range(inserted) :
        \A n \in 0..Len(w) :
            \A q \in [1..n -> AllLetters] :
                SameWord(q, SubSeq(w, 1, n)) =>
                    /\ hasSubString(trie, q, FALSE)
                    /\ n = Len(w) => hasSubString(trie, q, TRUE)

C7_Witness ==
    /\ pc = "trie"
    /\ Len(inserted) = MaxInserts
    /\ \E w \in Range(inserted) : Len(w) >= 2 /\ toLowerCase(w) # w

(***************************************************************************)
(* C8: after any sequence of addWord calls, a node is terminal exactly     *)
(* when the letters from the root to it spell the lower case of an         *)
(* inserted word, and a string is found as a whole word exactly when its   *)
(* lower case is the lower case of an inserted word.                       *)
(***************************************************************************)
C8_TerminalIffInserted ==
    /\ \A id \in 1..Len(trie) :
          trie[id].isTerminal <=> PathOf(trie, id) \in Lowered(inserted)
    /\ \A n \in 0..MaxTrieWordLen :
          \A s \in [1..n -> AllLetters] :
              hasSubString(trie, s, TRUE) <=> toLowerCase(s) \in Lowered(inserted)

C8_Witness ==
    /\ pc = "trie"
    /\ Len(inserted) = MaxInserts
    /\ \E id \in 2..Len(trie) :
          /\ ~trie[id].isTerminal
          /\ \E l \in DOMAIN trie[id].children :
                trie[getChild(trie[id], l)].isTerminal

(***************************************************************************)
(* C9: whenever a backTrack call has control, and so when it returns, the  *)
(* path array holds the sequence it held when the call was entered; the    *)
(* path of each calling backTrack is the part of it below; and the path    *)
(* never holds a cell twice.                                               *)
(***************************************************************************)
C9_PathRestored ==
    /\ NoDuplicates(path)
    /\ stack # <<>> => path = Top.entryPath
    /\ \A k \in 1..Len(stack) : stack[k].entryPath = SubSeq(path, 1, k - 1)

C9_Witness ==
    /\ lastOp = "return"
    /\ Len(stack) >= 2
    /\ Top.next <= Len(Top.adjacent)

(***************************************************************************)
(* C10: the path is one cell longer at each level of nested backTrack      *)
(* calls and never longer than the board, and solve() eventually returns.  *)
(***************************************************************************)
C10_Terminates ==
    /\ [](/\ Len(path) <= Len(board)
          /\ Len(path) = (IF stack = <<>> THEN 0 ELSE Len(stack) - 1)
          /\ \A k \in 1..Len(stack) : Len(stack[k].entryPath) = k - 1)
    /\ <>(pc = "done")

C10_Witness ==
    /\ pc = "done"
    /\ Len(board) >= 2
    /\ Len(emitted) >= 2

====
